---- MODULE Spec2Model ----
(***************************************************************************)
(* The nomination / ranking lifecycle of beatmap sets in bancho.py:        *)
(* the four moderation endpoints of app/api/v1/api.py (vote_beatmap,       *)
(* love_beatmap, rank_beatmap, cancel_beatmap) and the housekeeping loop    *)
(* _check_betmap_status of app/bg_loops.py.                                 *)
(*                                                                          *)
(* Every handler is an asyncio coroutine: the code between two awaits runs *)
(* atomically, and other coroutines may run at each await.  One action of  *)
(* the model is the effect of one awaited store call together with the     *)
(* synchronous code that follows it; a write to the process-local cache    *)
(* (synchronous code after an await) is an action of its own, because      *)
(* other coroutines may run between the store's commit and the resumption  *)
(* of the coroutine.  Reads of columns that no handler ever writes (id,    *)
(* set_id, md5, artist, title, creator, the users table) are folded into   *)
(* the neighbouring action.                                                *)
(*                                                                          *)
(* Next to them: main of main.py and the start-up that creates the sweep   *)
(* task, RateLimitMiddleware.dispatch of app/api/middlewares.py, and the   *)
(* endpoints restrict_player and unrestrict_player.  Each has its own      *)
(* specification; its variables keep their initial values in the others.   *)
(***************************************************************************)
EXTENDS Integers, FiniteSets, Sequences, TLC

(***************************************************************************)
(* Status codes stored in maps.status.                                     *)
(***************************************************************************)
Pending == 0
Ranked == 2
Approved == 3
Qualified == 4
Loved == 5
\* fetch_val found no row
None == -1

(***************************************************************************)
(* Bounds of the model.                                                    *)
(***************************************************************************)
MaxProcs == 2
MaxTime == 2

(***************************************************************************)
(* The data the handlers run on: two sets, the first with two sub-items    *)
(* (rows of maps), the second with one, and a set id with no row.  A row's *)
(* md5 is identified with its id.                                          *)
(***************************************************************************)
SetIds == {1, 2}
UnknownSet == 3
MapIds == {1, 2, 3}
MapsOfSet == [s \in SetIds \cup {UnknownSet} |->
                CASE s = 1 -> <<1, 2>>
                  [] s = 2 -> <<3>>
                  [] OTHER -> <<>>]
SetOfMap == [m \in MapIds |-> IF m = 3 THEN 2 ELSE 1]
\* md5s held by app.state.cache.beatmap; the handlers never add or drop one
CachedMaps == {1, 3}

\* users: 1 and 3 hold NOMINATOR, 2 holds NAT, 4 holds neither; 1 and 2
\* hold STAFF, 3 holds DEVELOPER
Users == {1, 2, 3, 4}
priv == [u \in Users |->
           CASE u = 1 -> {"NOMINATOR", "STAFF"}
             [] u = 2 -> {"NAT", "STAFF"}
             [] u = 3 -> {"NOMINATOR", "DEVELOPER"}
             [] OTHER -> {}]
\* a discord id and a user name without a row in users
UnknownUser == 5

Procs == 1 .. MaxProcs
Ops == {"vote", "love", "rank", "cancel"}

\* the stability window of the sweep, in clock units (DEVELOPER_MODE: 1 minute)
StabilityWindow == 1

(***************************************************************************)
(* The rate limiter.  Time is counted in ticks, TicksPerSecond to the      *)
(* second.  Only time.time() - self.last_access_time enters the code, so   *)
(* the model keeps this difference, elapsed_time, and stops counting at    *)
(* ElapsedCap: from one second on the refill fills the bucket whatever the *)
(* difference is.                                                          *)
(***************************************************************************)
max_requests_per_second == 3
TicksPerSecond == 8
ElapsedCap == TicksPerSecond
\* host headers, as sequences of characters; <<>> is a request without one
Hosts ==
  { <<"a", "p", "i", ".", "x">>,
    <<"a", "p", "i", ".">>,
    <<"o", "s", "u", ".", "x">>,
    <<"a", "p", "i", "x">>,
    <<"c", ".", "a", "p", "i", ".">>,
    <<"A", "p", "i", ".", "x">>,
    <<>> }

VARIABLES
  \* persistent store: table maps (per row), map_requests, scores
  status, frozen, change_date, map_requests, scores,
  \* redis: the keys vote:{userid}:{set_id}
  votes,
  \* app.state.cache.beatmap[md5].status / .frozen
  cache_status, cache_frozen,
  \* wall clock
  now,
  \* one request coroutine per slot: position, endpoint, caller, set_id,
  \* the status read by the first query, vote_count, the rows still to visit in the for loop, the response,
  \* the number of webhook posts made
  pc, op, uid, sid, status_read, vote_count, ids, res, posts,
  \* _check_betmap_status: position, qualified_beatmaps still to visit,
  \* alreadyrank, map_ids still to visit, webhook posts of the sweep
  spc, qualified_beatmaps, alreadyrank, map_ids, sposts,
  \* history: voters registered on a set since it last entered Pending,
  \* and whether an identical request was in flight together with a slot's
  cycleVoters, overlapped,
  \* main: position, the value main returned, the codes the safety checks
  \* returned, the locals uds and host, whether uvicorn.run was called;
  \* app.state.sessions.housekeeping_tasks: the sweep tasks created
  main_pc, exit_code, safety_codes, uds, host, server_started, housekeeping_tasks,
  \* RateLimitMiddleware: self.tokens, the time since self.last_access_time,
  \* the host header and the outcome of the last request
  tokens, elapsed_time, request_host, response,
  \* players: who is restricted, who has a session; the target of a
  \* restrict_player / unrestrict_player request
  restricted, is_online, target

dbvars == <<status, frozen, change_date, map_requests, scores>>
cachevars == <<cache_status, cache_frozen>>
reqvars == <<pc, op, uid, sid, status_read, vote_count, ids, res, posts>>
schedvars == <<spc, qualified_beatmaps, alreadyrank, map_ids, sposts>>
histvars == <<cycleVoters, overlapped>>
mainvars == <<main_pc, exit_code, safety_codes, uds, host, server_started, housekeeping_tasks>>
limitvars == <<tokens, elapsed_time, request_host, response>>
playervars == <<restricted, is_online, target>>
extvars == <<mainvars, limitvars, playervars>>
vars == <<dbvars, votes, cachevars, now, reqvars, schedvars, histvars, extvars>>

\* the server is up: main has passed its checks and called uvicorn.run, and
\* the start-up of the application has created the sweep task
InitServing ==
  /\ main_pc = "serving"
  /\ exit_code = None
  /\ safety_codes = <<0, 0>>
  /\ uds = "None"
  /\ host = "APP_HOST"
  /\ server_started = TRUE
  /\ housekeeping_tasks = 1
  /\ spc = "sleep"

\* RateLimitMiddleware.__init__: tokens = 0 and last_access_time = 0, the
\* epoch, which lies far more than a second before any request
InitLimiter ==
  /\ tokens = 0
  /\ elapsed_time = ElapsedCap
  /\ request_host = <<>>
  /\ response = "none"

\* no player is restricted; player 4 has a session
InitPlayers ==
  /\ restricted = [u \in Users |-> FALSE]
  /\ is_online = [u \in Users |-> u = 4]
  /\ target = [r \in Procs |-> 0]

\* the tables, redis, the cache and the request slots
InitState ==
  /\ frozen = [m \in MapIds |-> FALSE]
  /\ change_date = [m \in MapIds |-> 0]
  /\ map_requests = MapIds
  /\ scores = MapIds
  /\ votes = {}
  /\ cache_status = [m \in CachedMaps |-> status[m]]
  /\ cache_frozen = [m \in CachedMaps |-> FALSE]
  /\ now = 0
  /\ pc = [r \in Procs |-> "idle"]
  /\ op = [r \in Procs |-> "none"]
  /\ uid = [r \in Procs |-> 0]
  /\ sid = [r \in Procs |-> 0]
  /\ status_read = [r \in Procs |-> None]
  /\ vote_count = [r \in Procs |-> 0]
  /\ ids = [r \in Procs |-> <<>>]
  /\ res = [r \in Procs |-> "none"]
  /\ posts = [r \in Procs |-> 0]
  /\ qualified_beatmaps = <<>>
  /\ alreadyrank = {}
  /\ map_ids = <<>>
  /\ sposts = 0
  /\ cycleVoters = [s \in SetIds |-> {}]
  /\ overlapped = [r \in Procs |-> FALSE]
  /\ InitLimiter
  /\ InitPlayers

\* every set is Pending and the server is up
Init ==
  /\ status = [m \in MapIds |-> Pending]
  /\ InitState
  /\ InitServing

(***************************************************************************)
(* Helpers.                                                                *)
(***************************************************************************)
Rows(s) == MapsOfSet[s]
RowSet(s) == {Rows(s)[i] : i \in 1 .. Len(Rows(s))}
InFlight(r) == pc[r] \notin {"idle", "done"}

\* fetch_val("SELECT status FROM maps WHERE set_id = :set_id") is the status
\* of the first row of the set, None when the set has no row; the handler
\* tests it with `in (..)`, which None fails.
FirstStatus(s) == IF Rows(s) = <<>> THEN None ELSE status[Head(Rows(s))]
StatusIn(s, codes) == FirstStatus(s) \in codes

\* mutants: a tuple that misses one code
VoteFinalized_noQualified == {Ranked, Approved, Loved}
RankFinalized_noLoved == {Ranked, Qualified}

LoveFinalized_noLoved == {Ranked, Approved, Qualified}

\* the tuples of `if beatmap_info in (...)`, one per endpoint
VoteFinalized == {Ranked, Approved, Qualified, Loved}
LoveFinalized == {Ranked, Approved, Qualified, Loved}
RankFinalized == {Ranked, Qualified, Loved}
CancelFinalized == {Ranked, Approved, Loved}
Finalized(o) ==
  CASE o = "vote" -> VoteFinalized
    [] o = "love" -> LoveFinalized
    [] o = "rank" -> RankFinalized
    [] o = "cancel" -> CancelFinalized

\* mutant: the privilege check of the vote endpoint left out
Authorised_voteOpen(o, u) ==
  IF o = "vote" THEN TRUE ELSE "NAT" \in priv[u]

\* the privilege and key checks that open every endpoint
Authorised(o, u) ==
  IF o = "vote" THEN priv[u] \cap {"NOMINATOR", "NAT"} # {}
  ELSE "NAT" \in priv[u]

\* mutant: Love writes the code of Ranked
TargetStatus_loveWritesRanked(o) ==
  CASE o = "love" -> Ranked
    [] o = "rank" -> Ranked
    [] o = "cancel" -> Pending

\* the status and frozen flag an endpoint writes
TargetStatus(o) ==
  CASE o = "love" -> Loved
    [] o = "rank" -> Ranked
    [] o = "cancel" -> Pending
TargetFrozen(o) == o # "cancel"

\* mutant: no first-vote branch
IsFirstVote_never(n) == FALSE

\* mutant: a quorum of three
IsFirstVote_quorum3(n) == n <= 2

\* `if vote_count == '1'` takes the first-vote branch, anything else qualifies
IsFirstVote(n) == n = 1

\* mutants: a lookup that always / never finds something
SetExists_always(s) == TRUE
HasVoted_never(u, s) == FALSE

\* fetch_val("SELECT set_id FROM maps WHERE set_id = :set_id") found a row
SetExists(s) == Rows(s) # <<>>

\* redis.get(vote:{userid}:{set_id}) found the key
HasVoted(u, s) == <<u, s>> \in votes

\* len(vote_maps_list): the keys matching vote:*:{set_id}
CountVotes(s) == Cardinality({u \in Users : <<u, s>> \in votes})

(***************************************************************************)
(* A request arrives: the privilege and key checks read only the users     *)
(* table and the settings, which nothing here writes.                      *)
(***************************************************************************)
Arrive(r, o, u, s, key_ok) ==
  /\ pc[r] = "idle"
  /\ op' = [op EXCEPT ![r] = o]
  /\ uid' = [uid EXCEPT ![r] = u]
  /\ IF Authorised(o, u) /\ key_ok
     THEN /\ pc' = [pc EXCEPT ![r] = "status"]
          /\ sid' = [sid EXCEPT ![r] = s]
          /\ res' = res
          \* history: an identical request is in flight
          /\ overlapped' =
               [q \in Procs |->
                  IF q = r
                  THEN \E p \in Procs \ {r} :
                         InFlight(p) /\ op[p] = o /\ uid[p] = u /\ sid[p] = s
                  ELSE overlapped[q]
                         \/ (InFlight(q) /\ op[q] = o /\ uid[q] = u /\ sid[q] = s)]
     ELSE \* 403 before set_id is used
          /\ pc' = [pc EXCEPT ![r] = "done"]
          /\ sid' = sid
          /\ res' = [res EXCEPT ![r] = "forbidden"]
          /\ overlapped' = overlapped
  /\ UNCHANGED <<extvars, dbvars, votes, cachevars, now, status_read, vote_count, ids,
                 posts, schedvars, cycleVoters>>

\* any endpoint, any caller, any set id, a right or a wrong key
Start(r) ==
  \E o \in Ops, u \in Users, s \in SetIds \cup {UnknownSet}, key_ok \in BOOLEAN :
    Arrive(r, o, u, s, key_ok)

\* the response has been delivered; the slot is free for the next request
Finish(r) ==
  /\ pc[r] = "done"
  /\ pc' = [pc EXCEPT ![r] = "idle"]
  /\ op' = [op EXCEPT ![r] = "none"]
  /\ uid' = [uid EXCEPT ![r] = 0]
  /\ sid' = [sid EXCEPT ![r] = 0]
  /\ status_read' = [status_read EXCEPT ![r] = None]
  /\ vote_count' = [vote_count EXCEPT ![r] = 0]
  /\ ids' = [ids EXCEPT ![r] = <<>>]
  /\ res' = [res EXCEPT ![r] = "none"]
  /\ posts' = [posts EXCEPT ![r] = 0]
  /\ overlapped' = [overlapped EXCEPT ![r] = FALSE]
  /\ UNCHANGED <<extvars, dbvars, votes, cachevars, now, schedvars, cycleVoters>>

\* every endpoint: SELECT status ... ; if beatmap_info in (...): 403
read_status(r) ==
  /\ pc[r] = "status"
  /\ status_read' = [status_read EXCEPT ![r] = FirstStatus(sid[r])]
  /\ IF StatusIn(sid[r], Finalized(op[r]))
     THEN /\ pc' = [pc EXCEPT ![r] = "done"]
          /\ res' = [res EXCEPT ![r] = "finalized"]
     ELSE /\ pc' = [pc EXCEPT ![r] = IF op[r] = "vote" THEN "get" ELSE "setst"]
          /\ res' = res
  /\ UNCHANGED <<extvars, dbvars, votes, cachevars, now, op, uid, sid, vote_count, ids,
                 posts, schedvars, histvars>>

(***************************************************************************)
(* api_vote_beatmap                                                        *)
(***************************************************************************)
\* redis.get(vote:{userid}:{set_id}); then SELECT set_id ... -> 404
vote_get(r) ==
  /\ pc[r] = "get" /\ op[r] = "vote"
  /\ IF HasVoted(uid[r], sid[r])
     THEN /\ pc' = [pc EXCEPT ![r] = "done"]
          /\ res' = [res EXCEPT ![r] = "already_voted"]
     ELSE IF ~SetExists(sid[r])
     THEN /\ pc' = [pc EXCEPT ![r] = "done"]
          /\ res' = [res EXCEPT ![r] = "not_found"]
     ELSE /\ pc' = [pc EXCEPT ![r] = "scan"]
          /\ res' = res
  /\ UNCHANGED <<extvars, dbvars, votes, cachevars, now, op, uid, sid, status_read, vote_count, ids,
                 posts, schedvars, histvars>>

\* scan_iter(match=vote:*:{set_id}); vote_count = len(vote_maps_list)
vote_scan(r) ==
  /\ pc[r] = "scan" /\ op[r] = "vote"
  /\ vote_count' = [vote_count EXCEPT ![r] = CountVotes(sid[r])]
  /\ pc' = [pc EXCEPT ![r] = "incr"]
  /\ UNCHANGED <<extvars, dbvars, votes, cachevars, now, op, uid, sid, status_read, ids, res, posts,
                 schedvars, histvars>>

\* redis.incr(vote_key); vote_count = str(vote_count + 1)
vote_incr(r) ==
  /\ pc[r] = "incr" /\ op[r] = "vote"
  /\ votes' = votes \cup {<<uid[r], sid[r]>>}
  /\ vote_count' = [vote_count EXCEPT ![r] = vote_count[r] + 1]
  /\ pc' = [pc EXCEPT ![r] = IF IsFirstVote(vote_count[r] + 1) THEN "post1" ELSE "setq"]
  /\ cycleVoters' = [cycleVoters EXCEPT ![sid[r]] = @ \cup {uid[r]}]
  /\ UNCHANGED <<extvars, dbvars, cachevars, now, op, uid, sid, status_read, ids, res, posts,
                 schedvars, overlapped>>

\* first vote: the "1/2 votes" webhook, then 200 with votes = 1, need = 1
vote_post1(r) ==
  /\ pc[r] = "post1" /\ op[r] = "vote"
  /\ posts' = [posts EXCEPT ![r] = @ + 1]
  /\ pc' = [pc EXCEPT ![r] = "done"]
  /\ res' = [res EXCEPT ![r] = "accepted"]
  /\ UNCHANGED <<extvars, dbvars, votes, cachevars, now, op, uid, sid, status_read, vote_count, ids,
                 schedvars, histvars>>

\* UPDATE maps SET status = 4 WHERE set_id = :set_id
vote_setq(r) ==
  /\ pc[r] = "setq" /\ op[r] = "vote"
  /\ status' = [m \in MapIds |-> IF m \in RowSet(sid[r]) THEN Qualified ELSE status[m]]
  /\ pc' = [pc EXCEPT ![r] = "del"]
  /\ UNCHANGED <<extvars, frozen, change_date, map_requests, scores, votes, cachevars, now,
                 op, uid, sid, status_read, vote_count, ids, res, posts, schedvars, histvars>>

\* redis.delete(vote_key): the key of this voter
vote_del(r) ==
  /\ pc[r] = "del" /\ op[r] = "vote"
  /\ votes' = votes \ {<<uid[r], sid[r]>>}
  /\ pc' = [pc EXCEPT ![r] = "date"]
  /\ UNCHANGED <<extvars, dbvars, cachevars, now, op, uid, sid, status_read, vote_count, ids, res, posts,
                 schedvars, histvars>>

\* UPDATE maps SET change_date = now() WHERE set_id = :set_id, then
\* SELECT id FROM maps WHERE set_id = :set_id (all endpoints)
set_change_date(r) ==
  /\ pc[r] = "date"
  /\ change_date' = [m \in MapIds |-> IF m \in RowSet(sid[r]) THEN now ELSE change_date[m]]
  /\ ids' = [ids EXCEPT ![r] = Rows(sid[r])]
  /\ pc' = [pc EXCEPT ![r] = IF op[r] = "vote" THEN "cache" ELSE "update"]
  /\ UNCHANGED <<extvars, status, frozen, map_requests, scores, votes, cachevars, now,
                 op, uid, sid, status_read, vote_count, res, posts, schedvars, histvars>>

\* vote: if md5 in cache: status = 2, frozen = True
vote_cache(r) ==
  /\ pc[r] = "cache" /\ op[r] = "vote"
  /\ LET m == Head(ids[r]) IN
       IF m \in CachedMaps
       THEN /\ cache_status' = [cache_status EXCEPT ![m] = Ranked]
            /\ cache_frozen' = [cache_frozen EXCEPT ![m] = TRUE]
       ELSE UNCHANGED cachevars
  /\ pc' = [pc EXCEPT ![r] = "delreq"]
  /\ UNCHANGED <<extvars, dbvars, votes, now, op, uid, sid, status_read, vote_count, ids, res, posts,
                 schedvars, histvars>>

\* DELETE FROM map_requests WHERE map_id = :id, then the next row of the
\* loop or the code after it (all endpoints)
delete_request(r) ==
  /\ pc[r] = "delreq"
  /\ map_requests' = map_requests \ {Head(ids[r])}
  /\ ids' = [ids EXCEPT ![r] = Tail(@)]
  /\ pc' = [pc EXCEPT ![r] =
              IF Tail(ids[r]) = <<>> THEN "post"
              ELSE IF op[r] = "vote" THEN "cache" ELSE "update"]
  /\ UNCHANGED <<extvars, status, frozen, change_date, scores, votes, cachevars, now,
                 op, uid, sid, status_read, vote_count, res, posts, schedvars, histvars>>

\* the webhook posts that end a transition, then the 200 response: two
\* posts in vote and cancel, one in love and rank
post_and_return(r) ==
  /\ pc[r] = "post"
  /\ posts' = [posts EXCEPT ![r] = @ + (IF op[r] \in {"vote", "cancel"} THEN 2 ELSE 1)]
  /\ pc' = [pc EXCEPT ![r] = "done"]
  /\ res' = [res EXCEPT ![r] = IF op[r] = "vote" THEN "accepted" ELSE "ok"]
  /\ UNCHANGED <<extvars, dbvars, votes, cachevars, now, op, uid, sid, status_read, vote_count, ids,
                 schedvars, histvars>>

\* `await webhook.post()` raises: the post itself fails, or the setting that
\* names the webhook is empty and `webhook` was never bound.  No handler
\* catches it, so the request ends with an error response (all endpoints).
post_raise(r) ==
  /\ pc[r] \in {"post", "post1"}
  /\ pc' = [pc EXCEPT ![r] = "done"]
  /\ res' = [res EXCEPT ![r] = "notify_error"]
  /\ UNCHANGED <<extvars, dbvars, votes, cachevars, now, op, uid, sid, status_read, vote_count, ids,
                 posts, schedvars, histvars>>

\* an awaited call on the database or on redis raises (the store is
\* unavailable): the call has no effect, nothing catches the exception and
\* nothing undoes the statements that were executed before (all endpoints).
store_raise(r) ==
  /\ InFlight(r)
  /\ pc' = [pc EXCEPT ![r] = "done"]
  /\ res' = [res EXCEPT ![r] = "store_error"]
  /\ UNCHANGED <<extvars, dbvars, votes, cachevars, now, op, uid, sid, status_read, vote_count, ids,
                 posts, schedvars, histvars>>

(***************************************************************************)
(* api_love_beatmap, api_rank_beatmap, api_cancel_beatmap: the same code   *)
(* with the constants TargetStatus and TargetFrozen.                       *)
(***************************************************************************)
\* SELECT set_id ... -> 404, else UPDATE maps SET status = .. WHERE set_id = ..
mod_set_status(r) ==
  /\ pc[r] = "setst" /\ op[r] # "vote"
  /\ IF ~SetExists(sid[r])
     THEN /\ pc' = [pc EXCEPT ![r] = "done"]
          /\ res' = [res EXCEPT ![r] = "not_found"]
          /\ UNCHANGED <<status, cycleVoters>>
     ELSE /\ status' = [m \in MapIds |->
                          IF m \in RowSet(sid[r]) THEN TargetStatus(op[r]) ELSE status[m]]
          /\ pc' = [pc EXCEPT ![r] = "date"]
          /\ res' = res
          \* history: the nomination cycle of a set ends when the set is moved
          \* out of Pending by Love or Rank, or is returned to Pending by Cancel
          /\ cycleVoters' =
               IF op[r] = "cancel" /\ \A m \in RowSet(sid[r]) : status[m] = Pending
               THEN cycleVoters
               ELSE [cycleVoters EXCEPT ![sid[r]] = {}]
  /\ UNCHANGED <<extvars, frozen, change_date, map_requests, scores, votes, cachevars, now,
                 op, uid, sid, status_read, vote_count, ids, posts, schedvars, overlapped>>

\* maps_repo.update(idmap, status=.., frozen=..)
mod_update(r) ==
  /\ pc[r] = "update" /\ op[r] # "vote"
  /\ status' = [status EXCEPT ![Head(ids[r])] = TargetStatus(op[r])]
  /\ frozen' = [frozen EXCEPT ![Head(ids[r])] = TargetFrozen(op[r])]
  /\ pc' = [pc EXCEPT ![r] = "cache"]
  /\ UNCHANGED <<extvars, change_date, map_requests, scores, votes, cachevars, now,
                 op, uid, sid, status_read, vote_count, ids, res, posts, schedvars, histvars>>

\* if md5 in cache: status = .., frozen = ..
mod_cache(r) ==
  /\ pc[r] = "cache" /\ op[r] # "vote"
  /\ LET m == Head(ids[r]) IN
       IF m \in CachedMaps
       THEN /\ cache_status' = [cache_status EXCEPT ![m] = TargetStatus(op[r])]
            /\ cache_frozen' = [cache_frozen EXCEPT ![m] = TargetFrozen(op[r])]
       ELSE UNCHANGED cachevars
  /\ pc' = [pc EXCEPT ![r] = "delreq"]
  /\ UNCHANGED <<extvars, dbvars, votes, now, op, uid, sid, status_read, vote_count, ids, res, posts,
                 schedvars, histvars>>

(***************************************************************************)
(* _check_betmap_status                                                    *)
(***************************************************************************)
MapSeq == <<1, 2, 3>>
\* mutant: a threshold that is not strict
Eligible_notStrict(m) == status[m] = Qualified /\ change_date[m] <= now - StabilityWindow

\* WHERE status = 4 AND change_date < :threshold_time
Eligible(m) == status[m] = Qualified /\ change_date[m] < now - StabilityWindow
\* SELECT set_id FROM maps WHERE status = 4 AND change_date < :threshold_time:
\* one row per sub-item
QueryRows ==
  LET sel == SelectSeq(MapSeq, Eligible)
  IN [i \in 1 .. Len(sel) |-> SetOfMap[sel[i]]]

\* asyncio.sleep(interval) is over: the threshold and the query
sched_query ==
  /\ spc = "sleep"
  /\ qualified_beatmaps' = QueryRows
  /\ alreadyrank' = {}
  /\ sposts' = 0
  /\ spc' = IF QueryRows = <<>> THEN "sleep" ELSE "setst"
  /\ UNCHANGED <<extvars, dbvars, votes, cachevars, now, reqvars, map_ids, histvars>>

\* UPDATE maps SET status = 2 WHERE set_id = :id
sched_set_status ==
  /\ spc = "setst"
  /\ LET id == Head(qualified_beatmaps) IN
       /\ status' = [m \in MapIds |-> IF m \in RowSet(id) THEN Ranked ELSE status[m]]
       /\ IF id \notin alreadyrank
          THEN spc' = "post" /\ map_ids' = map_ids
          ELSE spc' = "cache" /\ map_ids' = Rows(id)
  \* history: automatic promotion ends the nomination cycle of the set
  /\ cycleVoters' = [cycleVoters EXCEPT ![Head(qualified_beatmaps)] = {}]
  /\ UNCHANGED <<extvars, frozen, change_date, map_requests, scores, votes, cachevars, now,
                 reqvars, qualified_beatmaps, alreadyrank, sposts, overlapped>>

\* if id not in alreadyrank: append, post the webhook; then SELECT id ...
sched_post ==
  /\ spc = "post"
  /\ alreadyrank' = alreadyrank \cup {Head(qualified_beatmaps)}
  /\ sposts' = sposts + 1
  /\ map_ids' = Rows(Head(qualified_beatmaps))
  /\ spc' = "cache"
  /\ UNCHANGED <<extvars, dbvars, votes, cachevars, now, reqvars, qualified_beatmaps, histvars>>

\* if md5 in cache: status = 2, frozen = True
sched_cache ==
  /\ spc = "cache"
  /\ LET m == Head(map_ids) IN
       IF m \in CachedMaps
       THEN /\ cache_status' = [cache_status EXCEPT ![m] = Ranked]
            /\ cache_frozen' = [cache_frozen EXCEPT ![m] = TRUE]
       ELSE UNCHANGED cachevars
  /\ spc' = "delreq"
  /\ UNCHANGED <<extvars, dbvars, votes, now, reqvars, qualified_beatmaps, alreadyrank,
                 map_ids, sposts, histvars>>

\* DELETE FROM map_requests WHERE map_id = :id
sched_delete_request ==
  /\ spc = "delreq"
  /\ map_requests' = map_requests \ {Head(map_ids)}
  /\ spc' = "delscores"
  /\ UNCHANGED <<extvars, status, frozen, change_date, scores, votes, cachevars, now,
                 reqvars, qualified_beatmaps, alreadyrank, map_ids, sposts, histvars>>

\* DELETE FROM scores WHERE map_md5 = :map_md5, then the next sub-item, the
\* next row of the query, or the sleep that opens the next tick
sched_delete_scores ==
  /\ spc = "delscores"
  /\ scores' = scores \ {Head(map_ids)}
  /\ map_ids' = Tail(map_ids)
  /\ IF Tail(map_ids) # <<>>
     THEN spc' = "cache" /\ UNCHANGED qualified_beatmaps
     ELSE /\ qualified_beatmaps' = Tail(qualified_beatmaps)
          /\ spc' = IF Tail(qualified_beatmaps) # <<>> THEN "setst" ELSE "sleep"
  /\ UNCHANGED <<extvars, status, frozen, change_date, map_requests, votes, cachevars, now,
                 reqvars, alreadyrank, sposts, histvars>>

\* an awaited call of the sweep raises (the query, a store statement, the
\* webhook post): the loop has no try/except, so the exception leaves the
\* coroutine and the task created by initialize_housekeeping_tasks is over;
\* nothing creates it again.  qualified_beatmaps keeps the rows not yet
\* handled when the exception was raised.
sched_raise ==
  /\ spc # "dead"
  /\ spc' = "dead"
  /\ UNCHANGED <<extvars, dbvars, votes, cachevars, now, reqvars, qualified_beatmaps,
                 alreadyrank, map_ids, sposts, histvars>>

\* time passes
Tick ==
  /\ now < MaxTime
  /\ now' = now + 1
  /\ UNCHANGED <<extvars, dbvars, votes, cachevars, reqvars, schedvars, histvars>>

(***************************************************************************)
(* Specifications.  Spec: requests run concurrently with each other and    *)
(* with the sweep.  SpecSeq: one coroutine at a time, a request or a       *)
(* sweep, each run to its end before the next starts; time passes between  *)
(* them.                                                                   *)
(***************************************************************************)
Step(r) ==
  \/ read_status(r)
  \/ vote_get(r)
  \/ vote_scan(r)
  \/ vote_incr(r)
  \/ vote_post1(r)
  \/ vote_setq(r)
  \/ vote_del(r)
  \/ set_change_date(r)
  \/ vote_cache(r)
  \/ mod_set_status(r)
  \/ mod_update(r)
  \/ mod_cache(r)
  \/ delete_request(r)
  \/ post_and_return(r)
  \/ Finish(r)

SchedStep ==
  \/ sched_set_status
  \/ sched_post
  \/ sched_cache
  \/ sched_delete_request
  \/ sched_delete_scores

Next ==
  \/ \E r \in Procs : Start(r) \/ Step(r) \/ post_raise(r) \/ store_raise(r)
  \/ sched_query
  \/ SchedStep
  \/ sched_raise
  \/ Tick

Spec == Init /\ [][Next]_vars

Quiet == spc = "sleep" /\ \A r \in Procs : pc[r] = "idle"

NextSeq ==
  \/ Quiet /\ Start(1)
  \/ \E r \in Procs : Step(r)
  \/ Quiet /\ sched_query
  \/ SchedStep
  \/ Quiet /\ Tick

SpecSeq == Init /\ [][NextSeq]_vars

(***************************************************************************)
(* SpecVotes: concurrent vote requests of the authorised voters on set 1,  *)
(* nothing else running.                                                   *)
(***************************************************************************)
Voters == {u \in Users : Authorised("vote", u)}

VoteStep(r) ==
  \/ read_status(r)
  \/ vote_get(r)
  \/ vote_scan(r)
  \/ vote_incr(r)
  \/ vote_post1(r)
  \/ vote_setq(r)
  \/ vote_del(r)
  \/ set_change_date(r)
  \/ vote_cache(r)
  \/ delete_request(r)
  \/ post_and_return(r)
  \/ Finish(r)

NextVotes ==
  \E r \in Procs :
    \/ \E u \in Voters : Arrive(r, "vote", u, 1, TRUE)
    \/ VoteStep(r)

SpecVotes == Init /\ [][NextVotes]_vars

(***************************************************************************)
(* SpecLoveRank: concurrent Love and Rank requests of a NAT user on set 1, *)
(* nothing else running.                                                   *)
(***************************************************************************)
Moderators == {u \in Users : Authorised("love", u)}

ModStep(r) ==
  \/ read_status(r)
  \/ mod_set_status(r)
  \/ set_change_date(r)
  \/ mod_update(r)
  \/ mod_cache(r)
  \/ delete_request(r)
  \/ post_and_return(r)
  \/ Finish(r)

NextLoveRank ==
  \E r \in Procs :
    \/ \E o \in {"love", "rank"}, u \in Moderators : Arrive(r, o, u, 1, TRUE)
    \/ ModStep(r)

SpecLoveRank == Init /\ [][NextLoveRank]_vars

(***************************************************************************)
(* SpecSweepCancel: votes on set 1, one at a time, qualify it; the sweep   *)
(* runs concurrently with Cancel requests of a NAT user on set 1.          *)
(***************************************************************************)
NextSweepCancel ==
  \/ Quiet /\ \E u \in Voters : Arrive(1, "vote", u, 1, TRUE)
  \/ pc[1] = "idle" /\ \E u \in Moderators : Arrive(2, "cancel", u, 1, TRUE)
  \/ \E r \in Procs : Step(r)
  \/ pc[1] = "idle" /\ sched_query
  \/ SchedStep
  \/ Quiet /\ Tick

SpecSweepCancel == Init /\ [][NextSweepCancel]_vars

(***************************************************************************)
(* SpecSweepFail: votes, one at a time, qualify the sets; the sweep runs   *)
(* next to them and any of its awaited calls may raise.  SpecSweepFailFair *)
(* adds the scheduling of the event loop: a sweep whose sleep is over runs *)
(* its query, and a sweep that can take its next step takes it.            *)
(***************************************************************************)
NextSweepFail ==
  \/ (\A r \in Procs : pc[r] = "idle")
       /\ \E u \in Voters, s \in SetIds : Arrive(1, "vote", u, s, TRUE)
  \/ \E r \in Procs : VoteStep(r)
  \/ sched_query
  \/ SchedStep
  \/ sched_raise
  \/ Tick

SpecSweepFail == Init /\ [][NextSweepFail]_vars

SpecSweepFailFair ==
  SpecSweepFail /\ WF_vars(sched_query) /\ WF_vars(SchedStep)

(***************************************************************************)
(* SpecSeqFail: requests on set 1, one at a time, whose awaited calls may  *)
(* raise; time passes between them.                                        *)
(***************************************************************************)
NextSeqFail ==
  \/ Quiet /\ \E o \in Ops, u \in Users : Arrive(1, o, u, 1, TRUE)
  \/ \E r \in Procs : Step(r)
  \/ \E r \in Procs : post_raise(r)
  \/ \E r \in Procs : store_raise(r)
  \/ Quiet /\ Tick

SpecSeqFail == Init /\ [][NextSeqFail]_vars

(***************************************************************************)
(* main (main.py) and the start-up of the application.  The safety checks, *)
(* the argument parser and the address predicates are functions of the     *)
(* machine the server runs on: the model draws their results.              *)
(***************************************************************************)
ExitCodes == {0, 1, 2}
NumSafetyChecks == 2

\* mutant: a failed safety check is ignored
SafetyCheckFailed_never(code) == FALSE

\* `if exit_code != 0: return exit_code`
SafetyCheckFailed(code) == code # 0

\* mutant: listeners on the socket are ignored
SocketInUse_never(listeners) == FALSE

\* `if processes_listening_on_unix_socket(APP_HOST) != 0: return 1`
SocketInUse(listeners) == listeners # 0

\* one pass of `for safety_check in (...)`: the check returns code
main_safety_check(code) ==
  /\ main_pc = "safety"
  /\ safety_codes' = Append(safety_codes, code)
  /\ IF SafetyCheckFailed(code)
     THEN main_pc' = "returned" /\ exit_code' = code
     ELSE /\ main_pc' = IF Len(safety_codes) + 1 = NumSafetyChecks THEN "args" ELSE "safety"
          /\ exit_code' = exit_code
  /\ UNCHANGED <<dbvars, votes, cachevars, now, reqvars, schedvars, histvars,
                 uds, host, server_started, housekeeping_tasks, limitvars, playervars>>

\* parser.parse_args(argv): -V prints the version and raises SystemExit, an
\* unknown argument raises SystemExit as well
main_parse_args(argv) ==
  /\ main_pc = "args"
  /\ main_pc' = IF argv = "none" THEN "address" ELSE "raised"
  /\ UNCHANGED <<dbvars, votes, cachevars, now, reqvars, schedvars, histvars,
                 exit_code, safety_codes, uds, host, server_started, housekeeping_tasks,
                 limitvars, playervars>>

\* the server configuration: host and port, or a unix socket nobody listens
\* on, or `return 1`, or ValueError
main_configure(valid_inet, valid_unix, port_set, path_exists, listeners) ==
  /\ main_pc = "address"
  /\ IF valid_inet /\ port_set
     THEN /\ host' = "APP_HOST" /\ uds' = uds
          /\ main_pc' = "run" /\ exit_code' = exit_code
     ELSE IF valid_unix /\ ~port_set
     THEN /\ uds' = "APP_HOST" /\ host' = host
          /\ IF path_exists /\ SocketInUse(listeners)
             THEN main_pc' = "returned" /\ exit_code' = 1
             ELSE main_pc' = "run" /\ exit_code' = exit_code
     ELSE /\ main_pc' = "raised"
          /\ UNCHANGED <<uds, host, exit_code>>
  /\ UNCHANGED <<dbvars, votes, cachevars, now, reqvars, schedvars, histvars,
                 safety_codes, server_started, housekeeping_tasks, limitvars, playervars>>

\* uvicorn.run(...) is called: the server starts
main_run ==
  /\ main_pc = "run"
  /\ main_pc' = "serving"
  /\ server_started' = TRUE
  /\ UNCHANGED <<dbvars, votes, cachevars, now, reqvars, schedvars, histvars,
                 exit_code, safety_codes, uds, host, housekeeping_tasks, limitvars, playervars>>

\* uvicorn.run returns when the server has been stopped: `return 0`
main_return ==
  /\ main_pc = "serving"
  /\ spc \in {"sleep", "unborn"} /\ \A r \in Procs : pc[r] = "idle"
  /\ main_pc' = "returned"
  /\ exit_code' = 0
  /\ UNCHANGED <<dbvars, votes, cachevars, now, reqvars, schedvars, histvars,
                 safety_codes, uds, host, server_started, housekeeping_tasks,
                 limitvars, playervars>>

\* mutant: two tasks for the sweep
initialize_housekeeping_tasks_twice ==
  /\ housekeeping_tasks' = housekeeping_tasks + 2
  /\ spc' = "sleep"

\* loop.create_task(_check_betmap_status(interval=60)): one task, which
\* starts with its sleep
initialize_housekeeping_tasks ==
  /\ housekeeping_tasks' = housekeeping_tasks + 1
  /\ spc' = "sleep"

\* the start-up of the application the server runs calls
\* initialize_housekeeping_tasks, once
startup ==
  /\ main_pc = "serving"
  /\ spc = "unborn"
  /\ initialize_housekeeping_tasks
  /\ UNCHANGED <<dbvars, votes, cachevars, now, reqvars, qualified_beatmaps,
                 alreadyrank, map_ids, sposts, histvars,
                 main_pc, exit_code, safety_codes, uds, host, server_started,
                 limitvars, playervars>>

(***************************************************************************)
(* SpecBoot: main runs from its first line; once the server is up, votes,  *)
(* one at a time, qualify the sets and the sweep runs next to them.        *)
(***************************************************************************)
InitBoot ==
  /\ status = [m \in MapIds |-> Pending]
  /\ InitState
  /\ main_pc = "safety"
  /\ exit_code = None
  /\ safety_codes = <<>>
  /\ uds = "None"
  /\ host = "None"
  /\ server_started = FALSE
  /\ housekeeping_tasks = 0
  /\ spc = "unborn"

Serving == main_pc = "serving" /\ housekeeping_tasks > 0

NextBoot ==
  \/ \E code \in ExitCodes : main_safety_check(code)
  \/ \E argv \in {"none", "version", "unknown"} : main_parse_args(argv)
  \/ \E valid_inet, valid_unix, port_set, path_exists \in BOOLEAN, listeners \in 0 .. 2 :
       main_configure(valid_inet, valid_unix, port_set, path_exists, listeners)
  \/ main_run
  \/ startup
  \/ main_return
  \/ Serving /\ (\A r \in Procs : pc[r] = "idle")
       /\ \E u \in Voters, s \in SetIds : Arrive(1, "vote", u, s, TRUE)
  \/ Serving /\ \E r \in Procs : VoteStep(r)
  \/ Serving /\ sched_query
  \/ Serving /\ SchedStep
  \/ Serving /\ Tick

SpecBoot == InitBoot /\ [][NextBoot]_vars

(***************************************************************************)
(* SpecSeqImported: as SpecSeq, on a store in which set 2 was imported     *)
(* with the status Approved.                                               *)
(***************************************************************************)
InitImported ==
  /\ status = [m \in MapIds |-> IF SetOfMap[m] = 2 THEN Approved ELSE Pending]
  /\ InitState
  /\ InitServing

SpecSeqImported == InitImported /\ [][NextSeq]_vars

(***************************************************************************)
(* The loops of api_vote_beatmap and of _check_betmap_status bind the row  *)
(* that fetch_all returned, not its id, to :id (`{"id": idmap}`,           *)
(* `{"id": map_id}`), where the other endpoints bind idmap["id"].  What    *)
(* the database driver makes of a row is not in the source.  The actions   *)
(* vote_cache, delete_request and sched_cache, sched_delete_request,       *)
(* sched_delete_scores are the outcome in which the row is bound as the    *)
(* value of its only column; the actions below are the outcome in which it *)
(* is bound as a value that equals the id of no row: the md5 lookup finds  *)
(* nothing, None is in no cache, and the DELETE statements match no row.   *)
(* (The outcome in which the driver raises is store_raise / sched_raise.)  *)
(***************************************************************************)
\* SELECT md5 FROM maps WHERE id = <row>: None; `if md5 in cache` is false
vote_cache_row(r) ==
  /\ pc[r] = "cache" /\ op[r] = "vote"
  /\ pc' = [pc EXCEPT ![r] = "delreq"]
  /\ UNCHANGED <<extvars, dbvars, votes, cachevars, now, op, uid, sid, status_read,
                 vote_count, ids, res, posts, schedvars, histvars>>

\* DELETE FROM map_requests WHERE map_id = <row>: no row matches
delete_request_row(r) ==
  /\ pc[r] = "delreq" /\ op[r] = "vote"
  /\ ids' = [ids EXCEPT ![r] = Tail(@)]
  /\ pc' = [pc EXCEPT ![r] = IF Tail(ids[r]) = <<>> THEN "post" ELSE "cache"]
  /\ UNCHANGED <<extvars, dbvars, votes, cachevars, now, op, uid, sid, status_read,
                 vote_count, res, posts, schedvars, histvars>>

\* the sweep: SELECT md5 FROM maps WHERE id = <row>: None
sched_cache_row ==
  /\ spc = "cache"
  /\ spc' = "delreq"
  /\ UNCHANGED <<extvars, dbvars, votes, cachevars, now, reqvars, qualified_beatmaps,
                 alreadyrank, map_ids, sposts, histvars>>

\* the sweep: DELETE FROM map_requests WHERE map_id = <row>: no row matches
sched_delete_request_row ==
  /\ spc = "delreq"
  /\ spc' = "delscores"
  /\ UNCHANGED <<extvars, dbvars, votes, cachevars, now, reqvars, qualified_beatmaps,
                 alreadyrank, map_ids, sposts, histvars>>

\* the sweep: DELETE FROM scores WHERE map_md5 = None: no row matches
sched_delete_scores_row ==
  /\ spc = "delscores"
  /\ map_ids' = Tail(map_ids)
  /\ IF Tail(map_ids) # <<>>
     THEN spc' = "cache" /\ UNCHANGED qualified_beatmaps
     ELSE /\ qualified_beatmaps' = Tail(qualified_beatmaps)
          /\ spc' = IF Tail(qualified_beatmaps) # <<>> THEN "setst" ELSE "sleep"
  /\ UNCHANGED <<extvars, dbvars, votes, cachevars, now, reqvars, alreadyrank,
                 sposts, histvars>>

(***************************************************************************)
(* SpecSeqRow: as SpecSeq, requests with the right key on the known sets,  *)
(* with the second outcome of the statements that bind a row.              *)
(***************************************************************************)
NextSeqRow ==
  \/ Quiet /\ \E o \in Ops, u \in Users, s \in SetIds : Arrive(1, o, u, s, TRUE)
  \/ \E r \in Procs :
       \/ read_status(r)
       \/ vote_get(r)
       \/ vote_scan(r)
       \/ vote_incr(r)
       \/ vote_post1(r)
       \/ vote_setq(r)
       \/ vote_del(r)
       \/ set_change_date(r)
       \/ vote_cache_row(r)
       \/ delete_request_row(r)
       \/ mod_set_status(r)
       \/ mod_update(r)
       \/ mod_cache(r)
       \/ op[r] # "vote" /\ delete_request(r)
       \/ post_and_return(r)
       \/ Finish(r)
  \/ Quiet /\ sched_query
  \/ sched_set_status
  \/ sched_post
  \/ sched_cache_row
  \/ sched_delete_request_row
  \/ sched_delete_scores_row
  \/ Quiet /\ Tick

SpecSeqRow == Init /\ [][NextSeqRow]_vars

(***************************************************************************)
(* RateLimitMiddleware.dispatch.  There is no await between the read of    *)
(* self.tokens and its last write, so a request is one action.             *)
(***************************************************************************)
Min(x, y) == IF x <= y THEN x ELSE y

\* mutant: every host is rate limited
IsApiHost_always(h) == TRUE

\* host.startswith("api.")
IsApiHost(h) == Len(h) >= 4 /\ SubSeq(h, 1, 4) = <<"a", "p", "i", ".">>

\* int(elapsed_time * self.max_requests_per_second), elapsed_time in seconds
TokensToAdd(e) == (e * max_requests_per_second) \div TicksPerSecond

\* mutant: a refill without the cap
Refill_noCap(t, e) == t + TokensToAdd(e)

\* min(self.tokens + tokens_to_add, self.max_requests_per_second)
Refill(t, e) == Min(t + TokensToAdd(e), max_requests_per_second)

\* one request with the host header h
dispatch(h) ==
  /\ request_host' = h
  /\ IF ~IsApiHost(h)
     THEN /\ response' = "next"
          /\ UNCHANGED <<tokens, elapsed_time>>
     ELSE /\ elapsed_time' = 0
          /\ IF Refill(tokens, elapsed_time) < 1
             THEN /\ tokens' = Refill(tokens, elapsed_time)
                  /\ response' = "429"
             ELSE /\ tokens' = Refill(tokens, elapsed_time) - 1
                  /\ response' = "next"
  /\ UNCHANGED <<dbvars, votes, cachevars, now, reqvars, schedvars, histvars,
                 mainvars, playervars>>

\* one tick of time passes
limiter_tick ==
  /\ elapsed_time < ElapsedCap
  /\ elapsed_time' = elapsed_time + 1
  /\ UNCHANGED <<dbvars, votes, cachevars, now, reqvars, schedvars, histvars,
                 mainvars, tokens, request_host, response, playervars>>

(***************************************************************************)
(* SpecLimiter: requests with any host header at any spacing.              *)
(* SpecLimiterFair: time does not stop, and requests to an api host keep   *)
(* arriving.                                                               *)
(***************************************************************************)
ApiHosts == {h \in Hosts : IsApiHost(h)}

NextLimiter ==
  \/ \E h \in Hosts : dispatch(h)
  \/ limiter_tick

SpecLimiter == Init /\ [][NextLimiter]_vars

SpecLimiterFair ==
  SpecLimiter /\ WF_vars(limiter_tick) /\ WF_vars(\E h \in ApiHosts : dispatch(h))

(***************************************************************************)
(* api_restrict_player and api_unrestrict_player.  They use the request    *)
(* slots of the other endpoints (pc, op, uid, res) and the variable        *)
(* target.  The handler awaits the lookup of the target, runs its checks   *)
(* on what the lookup returned, awaits the lookup of the admin and then    *)
(* awaits target.restrict / target.unrestrict.                             *)
(***************************************************************************)
PlayerOps == {"restrict", "unrestrict"}

\* the lookup of the caller by discord id, `priv & Privileges.STAFF` and the
\* key check; the users table and the settings are written by nobody here
player_arrive(r, o, u, t, key_ok) ==
  /\ pc[r] = "idle" /\ o \in PlayerOps
  /\ op' = [op EXCEPT ![r] = o]
  /\ uid' = [uid EXCEPT ![r] = u]
  /\ IF u \notin Users
     THEN /\ pc' = [pc EXCEPT ![r] = "done"]
          /\ res' = [res EXCEPT ![r] = "not_found"]
          /\ target' = target
     ELSE IF "STAFF" \notin priv[u] \/ ~key_ok
     THEN /\ pc' = [pc EXCEPT ![r] = "done"]
          /\ res' = [res EXCEPT ![r] = "forbidden"]
          /\ target' = target
     ELSE /\ pc' = [pc EXCEPT ![r] = "target"]
          /\ res' = res
          /\ target' = [target EXCEPT ![r] = t]
  /\ UNCHANGED <<dbvars, votes, cachevars, now, sid, status_read, vote_count, ids, posts,
                 schedvars, histvars, mainvars, limitvars, restricted, is_online>>

\* the checks of restrict_player on the target the lookup returned
Restrictable(u, t) ==
  /\ priv[t] \cap {"STAFF", "DEVELOPER"} = {}
  /\ t # u
  /\ ~restricted[t]

\* target = await players.from_cache_or_sql(name=username), and the checks
player_target(r) ==
  /\ pc[r] = "target" /\ op[r] \in PlayerOps
  /\ LET t == target[r] IN
       IF t \notin Users
       THEN /\ pc' = [pc EXCEPT ![r] = "done"]
            /\ res' = [res EXCEPT ![r] = "not_found"]
       ELSE IF \/ op[r] = "restrict" /\ ~Restrictable(uid[r], t)
               \/ op[r] = "unrestrict" /\ ~restricted[t]
       THEN /\ pc' = [pc EXCEPT ![r] = "done"]
            /\ res' = [res EXCEPT ![r] = "forbidden"]
       ELSE /\ pc' = [pc EXCEPT ![r] = "admin"]
            /\ res' = res
  /\ UNCHANGED <<dbvars, votes, cachevars, now, op, uid, sid, status_read, vote_count,
                 ids, posts, schedvars, histvars, mainvars, limitvars, playervars>>

\* admin = await players.from_cache_or_sql(name=user_info["name"])
player_admin(r) ==
  /\ pc[r] = "admin" /\ op[r] \in PlayerOps
  /\ pc' = [pc EXCEPT ![r] = "apply"]
  /\ UNCHANGED <<dbvars, votes, cachevars, now, op, uid, sid, status_read, vote_count,
                 ids, res, posts, schedvars, histvars, mainvars, limitvars, playervars>>

\* await target.restrict(..) and `if target.is_online: target.logout()`, or
\* await target.unrestrict(..); then the 200 response
player_apply(r) ==
  /\ pc[r] = "apply" /\ op[r] \in PlayerOps
  /\ IF op[r] = "restrict"
     THEN /\ restricted' = [restricted EXCEPT ![target[r]] = TRUE]
          /\ is_online' = [is_online EXCEPT ![target[r]] = FALSE]
     ELSE /\ restricted' = [restricted EXCEPT ![target[r]] = FALSE]
          /\ is_online' = is_online
  /\ pc' = [pc EXCEPT ![r] = "done"]
  /\ res' = [res EXCEPT ![r] = "ok"]
  /\ UNCHANGED <<dbvars, votes, cachevars, now, op, uid, sid, status_read, vote_count,
                 ids, posts, schedvars, histvars, mainvars, limitvars, target>>

\* the response has been delivered; the slot is free for the next request
player_finish(r) ==
  /\ pc[r] = "done" /\ op[r] \in PlayerOps
  /\ pc' = [pc EXCEPT ![r] = "idle"]
  /\ op' = [op EXCEPT ![r] = "none"]
  /\ uid' = [uid EXCEPT ![r] = 0]
  /\ res' = [res EXCEPT ![r] = "none"]
  /\ target' = [target EXCEPT ![r] = 0]
  /\ UNCHANGED <<dbvars, votes, cachevars, now, sid, status_read, vote_count, ids, posts,
                 schedvars, histvars, mainvars, limitvars, restricted, is_online>>

\* a player opens a session (the login is not part of these handlers)
player_login(u) ==
  /\ ~is_online[u]
  /\ is_online' = [is_online EXCEPT ![u] = TRUE]
  /\ UNCHANGED <<dbvars, votes, cachevars, now, reqvars, schedvars, histvars,
                 mainvars, limitvars, restricted, target>>

(***************************************************************************)
(* SpecPlayers: restrict and unrestrict requests, running concurrently.    *)
(* SpecPlayersSeq: the same requests, one at a time.                       *)
(***************************************************************************)
PlayerStep(r) ==
  \/ player_target(r)
  \/ player_admin(r)
  \/ player_apply(r)
  \/ player_finish(r)

PlayerStart(r) ==
  \E o \in PlayerOps, u, t \in Users \cup {UnknownUser}, key_ok \in BOOLEAN :
    player_arrive(r, o, u, t, key_ok)

NextPlayers ==
  \/ \E r \in Procs : PlayerStart(r)
  \/ \E r \in Procs : PlayerStep(r)
  \/ \E u \in Users : player_login(u)

SpecPlayers == Init /\ [][NextPlayers]_vars

NextPlayersSeq ==
  \/ (\A r \in Procs : pc[r] = "idle") /\ PlayerStart(1)
  \/ \E r \in Procs : PlayerStep(r)
  \/ \E u \in Users : player_login(u)

SpecPlayersSeq == Init /\ [][NextPlayersSeq]_vars

(***************************************************************************)
(* Properties.                                                             *)
(***************************************************************************)
SetHasStatus(s, c) == Rows(s) # <<>> /\ \A m \in RowSet(s) : status[m] = c
DoneVote(r) == pc[r] = "done" /\ op[r] = "vote"
\* the response of the vote that took the qualifying branch
QualifyingVote(r) == DoneVote(r) /\ res[r] = "accepted" /\ ~IsFirstVote(vote_count[r])

\* C1: of two vote requests of the same voter for the same set that were in
\* flight together, at most one is accepted (the other is refused as
\* already voted).
C1_OneAcceptedAmongConcurrent ==
  \A r1, r2 \in Procs :
    (/\ r1 # r2
     /\ DoneVote(r1) /\ DoneVote(r2)
     /\ uid[r1] = uid[r2] /\ sid[r1] = sid[r2]
     /\ overlapped[r1] /\ overlapped[r2])
    => ~(res[r1] = "accepted" /\ res[r2] = "accepted")

\* C2: when the vote of a second distinct voter of the nomination cycle has
\* been accepted, one request after the other, every sub-item of the set is
\* Qualified in the persistent store.
C2_TwoVotesQualify ==
  \A r \in Procs :
    (DoneVote(r) /\ res[r] = "accepted" /\ Cardinality(cycleVoters[sid[r]]) >= 2)
    => SetHasStatus(sid[r], Qualified)

C2_Witness ==
  \E r \in Procs :
    /\ DoneVote(r) /\ res[r] = "accepted"
    /\ Cardinality(cycleVoters[sid[r]]) = 2
    /\ uid[r] \in cycleVoters[sid[r]]
    /\ SetHasStatus(sid[r], Qualified)

\* C3: when no vote request is in flight, a Qualified set has no vote
\* record.
C3_QualifiedHasNoVotes ==
  \A s \in SetIds :
    (SetHasStatus(s, Qualified) /\ \A r \in Procs : ~(InFlight(r) /\ op[r] = "vote"))
    => CountVotes(s) = 0

\* C4: two vote records on a set that is still Pending, with no vote in
\* flight, is unreachable.
C4_NoQuorumWhilePending ==
  \A s \in SetIds :
    ~(/\ CountVotes(s) >= 2
      /\ SetHasStatus(s, Pending)
      /\ \A r \in Procs : ~InFlight(r))

\* C5: after a successful Cancel of a Qualified set no vote record exists
\* for the set.
C5_CancelClearsVotes ==
  \A r \in Procs :
    (pc[r] = "done" /\ op[r] = "cancel" /\ res[r] = "ok" /\ status_read[r] = Qualified)
    => CountVotes(sid[r]) = 0

\* C6: a vote writes Qualified only when at least two distinct voters were
\* registered since the set last entered Pending.
C6_QualifyNeedsTwoVotersOfCycle ==
  \A r \in Procs :
    (op[r] = "vote" /\ pc[r] = "del") => Cardinality(cycleVoters[sid[r]]) >= 2

\* C7: Love and Rank on a set that is Qualified, Ranked or Loved are
\* rejected, and no step of the rejected call changes the persistent store,
\* the vote records or the cache, or posts a notification.
C7_LoveRankRejectedWhenFinalized ==
  [][\A r \in Procs :
       /\ (/\ op[r] \in {"love", "rank"} /\ pc[r] = "status" /\ pc'[r] # "status"
           /\ \E c \in {Qualified, Ranked, Loved} : SetHasStatus(sid[r], c))
          => (pc'[r] = "done" /\ res'[r] = "finalized")
       /\ (/\ op'[r] \in {"love", "rank"} /\ pc'[r] # pc[r]
           /\ pc'[r] = "done" /\ res'[r] = "finalized")
          => (posts'[r] = 0 /\ UNCHANGED <<dbvars, votes, cachevars>>)
    ]_vars

C7_Witness ==
  \E r \in Procs :
    /\ pc[r] = "done" /\ op[r] = "rank" /\ res[r] = "finalized"
    /\ SetHasStatus(sid[r], Loved)

\* C8: a vote on a set that is Qualified, Ranked or Loved is rejected, and
\* the rejected call creates no vote record and changes neither the tally
\* nor the status.
C8_VoteRejectedWhenFinalized ==
  [][\A r \in Procs :
       /\ (/\ op[r] = "vote" /\ pc[r] = "status" /\ pc'[r] # "status"
           /\ \E c \in {Qualified, Ranked, Loved} : SetHasStatus(sid[r], c))
          => (pc'[r] = "done" /\ res'[r] = "finalized")
       /\ (/\ op'[r] = "vote" /\ pc'[r] # pc[r]
           /\ pc'[r] = "done" /\ res'[r] = "finalized")
          => (posts'[r] = 0 /\ UNCHANGED <<dbvars, votes, cachevars>>)
    ]_vars

\* a third voter is refused on a set that two votes have qualified
C8_Witness ==
  \E r \in Procs :
    /\ DoneVote(r) /\ res[r] = "finalized"
    /\ SetHasStatus(sid[r], Qualified)
    /\ Cardinality(cycleVoters[sid[r]]) = 2
    /\ uid[r] \notin cycleVoters[sid[r]]

\* C9: a Cancel that succeeds was issued on a Qualified set.
C9_CancelOnlyFromQualified ==
  \A r \in Procs :
    (pc[r] = "done" /\ op[r] = "cancel" /\ res[r] = "ok") => status_read[r] = Qualified

\* C10: when a successful transition has returned (a request, or a sweep
\* that promoted the set), the cache entry of every cached sub-item of the
\* set has the status and the frozen flag of the persistent store.
CacheMatchesStore(s) ==
  \A m \in RowSet(s) \cap CachedMaps :
    cache_status[m] = status[m] /\ cache_frozen[m] = frozen[m]

C10_CacheMatchesStoreAfterTransition ==
  /\ \A r \in Procs :
       (pc[r] = "done" /\ (res[r] = "ok" \/ QualifyingVote(r)))
       => CacheMatchesStore(sid[r])
  /\ spc = "sleep" => \A s \in alreadyrank : CacheMatchesStore(s)


\* C11: under any interleaving of concurrent transitions on one set, once no
\* request is in flight the cached status of every cached sub-item of the
\* set equals its status in the persistent store.
C11_CacheStatusMatchesWhenQuiet ==
  (\A r \in Procs : ~InFlight(r))
  => \A m \in CachedMaps : cache_status[m] = status[m]

\* C12: of a Love and a Rank request on the same set that both read it as
\* Pending, at most one commits its status change and reports success.
C12_OneOfLoveRankSucceeds ==
  \A r1, r2 \in Procs :
    (/\ r1 # r2
     /\ sid[r1] = sid[r2]
     /\ op[r1] \in {"love", "rank"} /\ op[r2] \in {"love", "rank"}
     /\ status_read[r1] = Pending /\ status_read[r2] = Pending
     /\ pc[r1] = "done" /\ pc[r2] = "done")
    => ~(res[r1] = "ok" /\ res[r2] = "ok")

\* C13: the status write of the sweep turns into Ranked only rows that are
\* Qualified at the moment of the write; a set that a Cancel has returned to
\* Pending since the sweep's query is not promoted.
C13_SweepRanksOnlyQualified ==
  [][(spc = "setst" /\ spc' # "setst")
     => \A m \in MapIds : status'[m] # status[m] => status[m] = Qualified]_vars

\* C14: in every reachable state, the states in the middle of a transition
\* included, all sub-items of a set have the same status and the same frozen
\* flag in the persistent store.
C14_SubItemsAgree ==
  \A s \in SetIds : \A m1, m2 \in RowSet(s) :
    status[m1] = status[m2] /\ frozen[m1] = frozen[m2]

\* the set a finished, successful transition of slot r was applied to
Succeeded(r) == pc[r] = "done" /\ (res[r] = "ok" \/ QualifyingVote(r))
\* the sweep has ended and promoted the sets of alreadyrank
SweepEnded == spc = "sleep" /\ alreadyrank # {}

\* C15: after every successful transition (the qualifying vote and the
\* promotion by the sweep included) the frozen flag of every sub-item of the
\* set in the persistent store is TRUE exactly when its status is not Pending.
C15_FrozenIffNotPending ==
  /\ \A r \in Procs :
       Succeeded(r) => \A m \in RowSet(sid[r]) : frozen[m] = (status[m] # Pending)
  /\ SweepEnded
       => \A s \in alreadyrank : \A m \in RowSet(s) : frozen[m] = (status[m] # Pending)

\* C16: the step that ends a successful transition (the response of a
\* request, the last step of a sweep that promoted sets) leaves change_date
\* of every sub-item of the set equal to the current time.
C16_TransitionStampsChangeDate ==
  [][/\ \A r \in Procs :
          (pc[r] # "done" /\ Succeeded(r)')
          => \A m \in RowSet(sid'[r]) : change_date'[m] = now'
     /\ (spc # "sleep" /\ SweepEnded')
          => \A s \in alreadyrank' : \A m \in RowSet(s) : change_date'[m] = now'
    ]_vars

\* C17: when a Rank request has succeeded, and when a sweep that promoted
\* sets has ended, no score and no pending request exists for any sub-item
\* of the set.
C17_RankedHasNoScoresNoRequests ==
  /\ \A r \in Procs :
       (pc[r] = "done" /\ op[r] = "rank" /\ res[r] = "ok")
       => RowSet(sid[r]) \cap (scores \cup map_requests) = {}
  /\ SweepEnded
       => \A s \in alreadyrank : RowSet(s) \cap (scores \cup map_requests) = {}

\* the sets that are Qualified with their last transition strictly more than
\* the stability window in the past
EligibleSets ==
  {s \in SetIds : /\ SetHasStatus(s, Qualified)
                  /\ \A m \in RowSet(s) : now - change_date[m] > StabilityWindow}
SeqSet(q) == {q[i] : i \in 1 .. Len(q)}

\* C18: the query of a sweep returns exactly the sets that are Qualified and
\* whose last transition lies strictly more than the stability window in the
\* past; the sweep changes the status of those sets only, to Ranked, and when
\* it ends every one of them is Ranked.
C18_SweepPromotesExactlyEligible ==
  /\ [](SeqSet(QueryRows) = EligibleSets)
  /\ [][/\ sched_query => SeqSet(qualified_beatmaps') = EligibleSets
        /\ (spc # "sleep")
             => \A m \in MapIds :
                  (status'[m] # status[m])
                    => (SetOfMap[m] \in EligibleSets /\ status'[m] = Ranked)
        /\ (spc # "sleep" /\ spc' = "sleep")
             => (/\ EligibleSets' = {}
                 /\ \A s \in alreadyrank' : SetHasStatus(s, Ranked)')
      ]_vars

\* a sweep at time 2 has promoted a set qualified at time 0 and left alone a
\* set qualified at time 1
C18_Witness ==
  /\ spc = "sleep" /\ now = 2
  /\ \E s \in alreadyrank :
       SetHasStatus(s, Ranked) /\ \A m \in RowSet(s) : change_date[m] = 0
  /\ \E s \in SetIds \ alreadyrank :
       SetHasStatus(s, Qualified) /\ \A m \in RowSet(s) : change_date[m] = 1

\* C19: when a step of the sweep has failed while it handled one set, every
\* other set of the rows the query returned is Ranked.
C19_OtherSetsStillPromoted ==
  (spc = "dead" /\ qualified_beatmaps # <<>>)
  => \A s \in SeqSet(qualified_beatmaps) \ {Head(qualified_beatmaps)} :
       SetHasStatus(s, Ranked)

\* C20: a set that is Qualified past the stability window, with no request
\* in flight, is eventually Ranked, also when a sweep has hit a failure.
C20_EligibleEventuallyRanked ==
  \A s \in SetIds :
    (s \in EligibleSets /\ \A r \in Procs : ~InFlight(r)) ~> SetHasStatus(s, Ranked)

\* C21: within one sweep the status write (and with it the purge loop) runs
\* once per set: the sweep does not run its status write for a set it has
\* already promoted in the same sweep.
C21_SweepWritesSetOnce ==
  [][(spc = "setst" /\ spc' # "setst") => Head(qualified_beatmaps) \notin alreadyrank]_vars

\* C23: the notification of a transition is sent after the cache update of
\* the set: a request posts it when its loop over the sub-items is over, and
\* the sweep does not go on to update the cache after it has posted.
C23_NotifyAfterCacheUpdate ==
  [][/\ \A r \in Procs :
          (posts'[r] > posts[r] /\ pc[r] # "post1") => (pc[r] = "post" /\ ids[r] = <<>>)
     /\ (sposts' > sposts) => spc' # "cache"
    ]_vars

\* C29: an accepted vote returns as tally the number of distinct voters
\* registered on the set in the current nomination cycle, this vote
\* included, and the tally is at most the quorum of 2.
C29_TallyIsCycleVoters ==
  \A r \in Procs :
    (DoneVote(r) /\ res[r] = "accepted")
    => (vote_count[r] = Cardinality(cycleVoters[sid[r]]) /\ vote_count[r] <= 2)

\* C24 (as the code has it): Love on a Loved set and Rank on a Ranked set are
\* rejected as already finalized; the call changes neither the persistent
\* store, the vote records nor the cache, and posts no notification.
C24_SameTargetRejected ==
  [][\A r \in Procs :
       (/\ op[r] \in {"love", "rank"} /\ pc[r] = "status" /\ pc'[r] # "status"
        /\ SetHasStatus(sid[r], TargetStatus(op[r])))
       => (/\ pc'[r] = "done" /\ res'[r] = "finalized" /\ posts'[r] = 0
           /\ UNCHANGED <<dbvars, votes, cachevars>>)
    ]_vars

C24_Witness ==
  \E r \in Procs :
    /\ pc[r] = "done" /\ op[r] = "love" /\ res[r] = "finalized"
    /\ status_read[r] = Loved /\ SetHasStatus(sid[r], Loved)

\* C24 (as claimed): a Love or Rank call on a set that already has the
\* target status returns success.
C24_SameTargetNoOpSuccess ==
  \A r \in Procs :
    (/\ pc[r] = "done" /\ op[r] \in {"love", "rank"}
     /\ status_read[r] = TargetStatus(op[r]))
    => res[r] = "ok"

\* the authority an endpoint asks of its caller
HoldsAuthority(o, u) ==
  IF o = "vote" THEN "NOMINATOR" \in priv[u] \/ "NAT" \in priv[u]
  ELSE "NAT" \in priv[u]

\* C25: a request whose caller lacks the authority of the endpoint, or whose
\* key is wrong, is rejected; it changes neither the persistent store, the
\* vote records nor the cache, and posts no notification.
C25_UnauthorisedRejected ==
  [][\A r \in Procs :
       (pc[r] = "idle" /\ pc'[r] # "idle")
       => \/ /\ pc'[r] = "done" /\ res'[r] = "forbidden" /\ posts'[r] = 0
             /\ UNCHANGED <<dbvars, votes, cachevars>>
          \/ \A s \in SetIds \cup {UnknownSet}, k \in BOOLEAN :
               ~(k /\ HoldsAuthority(op'[r], uid'[r]))
               => ~Arrive(r, op'[r], uid'[r], s, k)
    ]_vars

\* a Cancel of a user who holds NOMINATOR but not NAT has been refused
C25_Witness ==
  \E r \in Procs :
    pc[r] = "done" /\ res[r] = "forbidden" /\ op[r] = "cancel" /\ uid[r] = 1

\* C26: a request on a set id without rows in the persistent store ends with
\* not-found; no step of it creates a vote record, writes the store or the
\* cache, or posts a notification.
C26_UnknownSetNotFound ==
  [][\A r \in Procs :
       (InFlight(r) /\ Rows(sid[r]) = <<>> /\ pc'[r] # pc[r])
       => (/\ UNCHANGED <<dbvars, votes, cachevars>>
           /\ posts'[r] = 0
           /\ (pc[r] \in {"get", "setst"}) => (pc'[r] = "done" /\ res'[r] = "not_found"))
    ]_vars

C26_Witness ==
  \E r \in Procs :
    pc[r] = "done" /\ res[r] = "not_found" /\ op[r] = "vote" /\ sid[r] = UnknownSet

\* C27: a step of a vote request whose tally is below the quorum (the vote
\* is being registered as a first vote, or is being rejected) leaves the
\* persistent store and the cache unchanged; the only vote record it may
\* create is the one of this voter for this set, and it removes none.
C27_NonQuorumVoteFrame ==
  [][\A r \in Procs :
       (op[r] = "vote" /\ InFlight(r) /\ pc'[r] # pc[r] /\ vote_count'[r] <= 1)
       => (/\ UNCHANGED <<dbvars, cachevars>>
           /\ votes \subseteq votes'
           /\ votes' \ votes \subseteq {<<uid[r], sid[r]>>})
    ]_vars

C27_Witness ==
  \E r \in Procs :
    /\ DoneVote(r) /\ res[r] = "accepted" /\ vote_count[r] = 1
    /\ <<uid[r], sid[r]>> \in votes
    /\ SetHasStatus(sid[r], Pending)

\* C28: a vote of a voter who already holds a vote record for the set is
\* rejected as already voted and changes neither the vote records nor
\* anything else.
C28_SecondVoteRejected ==
  [][\A r \in Procs :
       (/\ op[r] = "vote" /\ pc[r] = "get" /\ pc'[r] # "get"
        /\ <<uid[r], sid[r]>> \in votes)
       => (/\ pc'[r] = "done" /\ res'[r] = "already_voted" /\ posts'[r] = 0
           /\ UNCHANGED <<dbvars, votes, cachevars>>)
    ]_vars

\* the voter of the one accepted vote of the cycle is refused on the set,
\* which is still Pending
C28_Witness ==
  \E r \in Procs :
    /\ DoneVote(r) /\ res[r] = "already_voted"
    /\ SetHasStatus(sid[r], Pending)
    /\ cycleVoters[sid[r]] = {uid[r]}
    /\ CountVotes(sid[r]) = 1

\* C22: a request that has committed its writes and reached its notification
\* returns success, whatever happens to the notification, and the committed
\* status is kept.
C22_NotifyFailureNotSurfaced ==
  [][\A r \in Procs :
       (pc[r] = "post" /\ pc'[r] = "done" /\ res'[r] # "store_error")
       => (res'[r] \in {"ok", "accepted"} /\ UNCHANGED status)
    ]_vars

\* C30: when a store call of a transition has failed, the transition has left
\* no partial result: if the status of the set differs from the one the
\* request read, then change_date, the frozen flag of every sub-item and the
\* cache entries have been written as well.
C30_StoreFailureLeavesNothingPartial ==
  \A r \in Procs :
    (/\ pc[r] = "done" /\ res[r] = "store_error" /\ status_read[r] # None
     /\ \E m \in RowSet(sid[r]) : status[m] # status_read[r])
    => /\ \A m \in RowSet(sid[r]) :
            change_date[m] = now /\ frozen[m] = (status[m] # Pending)
       /\ \A m \in RowSet(sid[r]) \cap CachedMaps : cache_status[m] = status[m]

\* C31: a Love request that read the set as Pending and succeeded leaves
\* every sub-item Loved, a Rank request leaves every sub-item Ranked; while
\* such a request runs, no sub-item of the set has any status other than
\* Pending and the target.
C31_LoveRankFromPending ==
  \A r \in Procs :
    (op[r] \in {"love", "rank"} /\ status_read[r] = Pending)
    => LET wanted == IF op[r] = "love" THEN Loved ELSE Ranked IN
         /\ (pc[r] = "done" /\ res[r] = "ok") => SetHasStatus(sid[r], wanted)
         /\ \A m \in RowSet(sid[r]) : status[m] \in {Pending, wanted}

\* Love has succeeded on the set with two sub-items, read as Pending
C31_Witness ==
  \E r \in Procs :
    /\ pc[r] = "done" /\ op[r] = "love" /\ res[r] = "ok"
    /\ status_read[r] = Pending /\ sid[r] = 1
    /\ SetHasStatus(1, Loved)

\* C32: a successful Cancel of a Qualified set leaves the set Pending and
\* unfrozen, and the set then behaves as a fresh Pending set: a Vote, Love or
\* Rank request on a Pending set on which nobody has voted since it last
\* entered Pending is not rejected as finalized nor as already voted, and
\* the sweep does not select it.
C32_CancelledSetIsFreshPending ==
  [][\A r \in Procs :
       /\ (/\ pc[r] # "done" /\ pc'[r] = "done" /\ op[r] = "cancel"
           /\ res'[r] = "ok" /\ status_read[r] = Qualified)
          => (SetHasStatus(sid[r], Pending)'
              /\ \A m \in RowSet(sid[r]) : ~frozen'[m])
       /\ (/\ op[r] \in {"vote", "love", "rank"}
           /\ pc[r] \in {"status", "get"} /\ pc'[r] # pc[r]
           /\ SetHasStatus(sid[r], Pending) /\ cycleVoters[sid[r]] = {})
          => (/\ res'[r] \notin {"finalized", "already_voted"}
              /\ sid[r] \notin SeqSet(QueryRows))
    ]_vars

\* C33: one sweep task is created, by the start-up, and never a second one;
\* the sweep exists exactly when it has been created; and the query of a
\* tick runs only when the rows of the previous query and the sub-items of
\* its last set have all been handled.
C33_OneSweepAtATime ==
  /\ [](/\ housekeeping_tasks <= 1
        /\ (spc # "unborn") = (housekeeping_tasks = 1)
        /\ (housekeeping_tasks = 1) => server_started)
  /\ [][/\ sched_query => (qualified_beatmaps = <<>> /\ map_ids = <<>>)
        /\ (housekeeping_tasks' # housekeeping_tasks)
             => (housekeeping_tasks = 0 /\ main_pc = "serving")
      ]_vars

\* a sweep has promoted both sets and gone back to its sleep; six rows had
\* to be handled before (two per sub-item of set 1 and one of set 2 at most)
C33_Witness ==
  /\ housekeeping_tasks = 1
  /\ spc = "sleep" /\ alreadyrank = {1, 2}
  /\ SetHasStatus(1, Ranked) /\ SetHasStatus(2, Ranked)

\* C40: the server is started only when both safety checks have returned 0
\* and the address has been accepted (host or uds is set); main returns the
\* first non-zero code of a safety check without running the checks after
\* it; when it returns 1 for a socket in use, and whenever a safety check
\* has failed, the server is never started.
C40_ServerStartsOnlyAfterChecks ==
  /\ [](/\ server_started
           => (/\ safety_codes = <<0, 0>>
               /\ (host # "None" \/ uds # "None"))
        /\ (\E i \in 1 .. Len(safety_codes) : safety_codes[i] # 0)
           => (/\ main_pc = "returned" /\ ~server_started
               /\ exit_code = safety_codes[Len(safety_codes)]
               /\ \A i \in 1 .. Len(safety_codes) - 1 : safety_codes[i] = 0)
        /\ (main_pc = "returned" /\ exit_code # 0) => ~server_started)
  /\ [][\A n \in 1 .. 2 :
          (main_pc = "address" /\ main_configure(FALSE, TRUE, FALSE, TRUE, n))
          => (main_pc' = "returned" /\ exit_code' = 1 /\ ~server_started')
      ]_vars

\* the first check passed, the second returned 2: main returned 2
C40_Witness ==
  /\ main_pc = "returned" /\ exit_code = 2 /\ safety_codes = <<0, 2>>
  /\ ~server_started

\* C35: Vote, Love and Rank reject a set whose stored status is 2, 3, 4 or
\* 5, and the status of a row that holds one of these codes is changed only
\* by a Cancel on a Qualified row and by the sweep's promotion of a
\* Qualified row.
C35_FinalizedCodesAgree ==
  [][/\ \A r \in Procs :
          (/\ op[r] \in {"vote", "love", "rank"}
           /\ pc[r] = "status" /\ pc'[r] # "status"
           /\ FirstStatus(sid[r]) \in {Ranked, Approved, Qualified, Loved})
          => (pc'[r] = "done" /\ res'[r] = "finalized")
     /\ \A m \in MapIds :
          (status[m] \in {Ranked, Approved, Qualified, Loved} /\ status'[m] # status[m])
          => (/\ status[m] = Qualified
              /\ \/ \E r \in Procs : op[r] = "cancel" /\ InFlight(r) /\ pc'[r] # pc[r]
                 \/ spc = "setst" /\ spc' # "setst" /\ status'[m] = Ranked)
    ]_vars

\* C34: when a successful transition has returned (a request, or a sweep
\* that promoted sets), no map request is left for any sub-item of the set;
\* and a map request is removed only by a transition on the set of its
\* sub-item, never created.
C34_NoRequestLeftAfterTransition ==
  /\ [](/\ \A r \in Procs : Succeeded(r) => RowSet(sid[r]) \cap map_requests = {}
        /\ SweepEnded => \A s \in alreadyrank : RowSet(s) \cap map_requests = {})
  /\ [][/\ map_requests' \subseteq map_requests
        /\ \A m \in map_requests \ map_requests' :
             \/ \E r \in Procs : InFlight(r) /\ pc'[r] # pc[r] /\ sid[r] = SetOfMap[m]
             \/ spc = "delreq" /\ Head(qualified_beatmaps) = SetOfMap[m]
      ]_vars

\* the host header begins with the four characters a, p, i and .
HasApiPrefix(h) ==
  Len(h) >= 4 /\ h[1] = "a" /\ h[2] = "p" /\ h[3] = "i" /\ h[4] = "."
\* the tokens in the bucket once the elapsed time has been credited
Available ==
  LET credited == tokens + (elapsed_time * max_requests_per_second) \div TicksPerSecond
  IN IF credited > max_requests_per_second THEN max_requests_per_second ELSE credited

\* C36: the token count is always between 0 and max_requests_per_second; a
\* request to an api host is forwarded only when, after the refill, at least
\* one token is there, and when it is forwarded exactly one token is taken
\* from the refilled bucket.
C36_TokensWithinBucket ==
  /\ [](tokens \in 0 .. max_requests_per_second)
  /\ [][\A h \in Hosts :
          (dispatch(h) /\ HasApiPrefix(h) /\ response' = "next")
          => (Available >= 1 /\ tokens' = Available - 1)
      ]_vars

\* requests have emptied a full bucket: the last of them was forwarded
C36_Witness ==
  /\ tokens = 0 /\ response = "next" /\ HasApiPrefix(request_host)
  /\ elapsed_time = 0

\* C37: a request whose host does not begin with api. is forwarded and
\* changes neither the token count nor the time of the last access; a
\* request answered with 429 takes no token.
C37_NonApiAndRejectedFrame ==
  [][\A h \in Hosts :
       /\ (dispatch(h) /\ ~HasApiPrefix(h))
          => (response' = "next" /\ UNCHANGED <<tokens, elapsed_time>>)
       /\ (dispatch(h) /\ response' = "429")
          => (HasApiPrefix(h) /\ tokens' = tokens /\ Available < 1)
    ]_vars

\* a request to c.api. has been forwarded while the bucket was empty and
\* time had passed since the last access
C37_Witness ==
  /\ request_host = <<"c", ".", "a", "p", "i", ".">> /\ response = "next"
  /\ tokens = 0 /\ elapsed_time = 1

\* C38: after a request has been rejected, under requests to api hosts that
\* keep arriving, a request to an api host is eventually forwarded.
C38_EventuallyAdmitted ==
  (response = "429") ~> (response = "next" /\ HasApiPrefix(request_host))

\* C39: the step that restricts a player acts on a target who holds neither
\* STAFF nor DEVELOPER, who is not the caller and who is not restricted, and
\* the step that unrestricts a player acts on a restricted target; a call
\* that is rejected, for whatever reason, leaves the restriction state and
\* the session of every player unchanged.
C39_RestrictGuards ==
  [][\A r \in Procs :
       /\ (op[r] = "restrict" /\ pc[r] = "apply" /\ pc'[r] = "done")
          => (/\ "STAFF" \notin priv[target[r]]
              /\ "DEVELOPER" \notin priv[target[r]]
              /\ target[r] # uid[r]
              /\ ~restricted[target[r]])
       /\ (op[r] = "unrestrict" /\ pc[r] = "apply" /\ pc'[r] = "done")
          => restricted[target[r]]
       /\ (/\ op'[r] \in {"restrict", "unrestrict"}
           /\ pc[r] # "done" /\ pc'[r] = "done" /\ res'[r] # "ok")
          => UNCHANGED <<restricted, is_online>>
    ]_vars

====
